---- MODULE Spec2Model ----
(***************************************************************************)
(* Model of studentsource2024/main.c: one producer thread, two consumer    *)
(* threads and the shared buffer (sbuffer) they communicate through.       *)
(*                                                                         *)
(* A sensor record is modelled by its id and its timestamp; the value      *)
(* field is carried along by the code and never inspected, so it is left   *)
(* out.  The k-th record of the input file carries timestamp k, which      *)
(* makes every reading of the input distinguishable.                       *)
(***************************************************************************)
EXTENDS Integers, Sequences, FiniteSets

\* ---------------------------------------------------------------- bounds
MaxInput == 2          \* records in the input file: 0..MaxInput
MaxAllocFail == 1      \* calls of malloc that fail in one run: 0..MaxAllocFail

\* ------------------------------------------------------ program constants
NUM_THREADS == 3

NumConsumers == NUM_THREADS - 1
Producer == 0
Consumers == 1..NumConsumers
Threads == {Producer} \cup Consumers
NoThread == -1

NULL == 0
MaxNodes == MaxInput + NumConsumers
NodeIds == 1..MaxNodes
\* the sink history keeps as many lines as the input can have records; the
\* lines written after that are not recorded
SinkCap == MaxInput

\* sensor ids: 0 is the id of the end-of-stream record, 1 stands for the id
\* of a real sensor (the code only ever tests an id against 0)
Ids == 0..1
Records == [id : Ids, ts : 0..MaxInput]
\* sensor_data_t end_signal = {0, 0.0, 0}
end_signal == [id |-> 0, ts |-> 0]
\* sensor_data_t retrieved_data; is not initialised.  Uninit marks the local
\* record as never written; Garbage is what such a record may hold: any id,
\* and a timestamp (0) that no record of the input carries.  The value it
\* holds is chosen where the code first reads it.
Uninit == [id |-> -1, ts |-> -1]
Garbage == [id : Ids, ts : {0}]

VARIABLES
  input,           \* the records of the input file, in file order
  readPos,         \* number of records the producer has read
  pc,              \* position of each thread
  sensor_entry,    \* producer_thread: record read last (written by fread
                   \*   before it is ever read, so its first value is moot)
  i,               \* producer_thread: counter of the end-of-stream loop
  dummy,           \* sbuffer_insert: node allocated by the call
  insRet,          \* sbuffer_insert: where the call returns to
  insStatus,       \* value returned by the last sbuffer_insert
  allocFails,      \* number of malloc calls that have failed
  retrieved_data,  \* consumer_thread: local record of each consumer
  status,          \* consumer_thread: value returned by sbuffer_remove
  mutex,           \* owner of buffer->mutex
  waitSet,         \* consumers blocked on buffer->condition
  csv_mutex,       \* owner of csv_mutex
  head, tail,      \* buffer->head, buffer->tail
  heap,            \* allocated nodes: node -> [next, data]
  mainpc,          \* position of main
  inserted,        \* history: records linked into the buffer, in order
  removed,         \* history: records unlinked by sbuffer_remove, in order
  sink,            \* history: lines written to the output file, in order
  waitStamp        \* history: Len(inserted) when the current remove call last
                   \*          started to wait, -1 if it has not waited

vars == <<input, readPos, pc, sensor_entry, i, dummy, insRet, insStatus,
          allocFails,
          retrieved_data, status, mutex, waitSet, csv_mutex, head, tail, heap,
          mainpc, inserted, removed, sink, waitStamp>>

prodVars == <<input, readPos, sensor_entry, i, dummy, insRet, insStatus,
             allocFails>>
consVars == <<retrieved_data, status>>
bufVars  == <<head, tail, heap>>
histVars == <<inserted, removed, sink, waitStamp>>

\* ------------------------------------------------------------ the buffer

\* the nodes from node n on, following next
RECURSIVE Chain(_, _, _)
Chain(hp, n, fuel) ==
  IF n = NULL \/ n \notin DOMAIN hp \/ fuel = 0 THEN <<>>
  ELSE <<n>> \o Chain(hp, hp[n].next, fuel - 1)

QueueNodes == Chain(heap, head, MaxNodes + 1)
QueueData == [k \in 1..Len(QueueNodes) |-> heap[QueueNodes[k]].data]

\* malloc: an address that is not in use
NewNode(hp) ==
  CHOOSE n \in NodeIds : n \notin DOMAIN hp /\ \A m \in NodeIds : m \notin DOMAIN hp => n <= m

\* malloc + dummy->data = *data; dummy->next = NULL
AllocNode(hp, d) ==
  [n \in DOMAIN hp \cup {NewNode(hp)} |->
     IF n = NewNode(hp) THEN [next |-> NULL, data |-> d] ELSE hp[n]]

\* free(n)
FreeNode(hp, n) == [m \in DOMAIN hp \ {n} |-> hp[m]]

\* mutant: a lock that never makes its caller wait
MutexFree_always(m) == TRUE

\* pthread_mutex_lock can return when the mutex has no owner
MutexFree(m) == m = NoThread

\* mutant: the new node is linked in front of the head
LinkNode_front(h, t, hp, d) ==
  IF t = NULL
    THEN <<d, d, hp>>
    ELSE <<d, t, [hp EXCEPT ![d].next = h]>>

\* sbuffer_insert, linking of node d: <<head, tail, heap>> afterwards
LinkNode(h, t, hp, d) ==
  IF t = NULL
    THEN <<d, d, hp>>
    ELSE <<h, d, [hp EXCEPT ![t].next = d]>>

\* mutant: the end-of-stream test is missing
HeadIsEndOfStream_never(h, hp) == FALSE

\* sbuffer_remove, the end-of-stream test on the head node
HeadIsEndOfStream(h, hp) == hp[h].data.id = 0

\* mutant: the tail is not reset when the last node is removed
UnlinkHead_no_tail_reset(h, t, hp) == <<hp[h].next, t, FreeNode(hp, h)>>

\* mutant: the unlinking always empties the list
UnlinkHead_drop_all(h, t, hp) == <<NULL, NULL, FreeNode(hp, h)>>

\* sbuffer_remove, unlinking of the head node: <<head, tail, heap>> afterwards
UnlinkHead(h, t, hp) ==
  IF h = t
    THEN <<NULL, NULL, FreeNode(hp, h)>>
    ELSE <<hp[h].next, t, FreeNode(hp, h)>>

\* mutant: if (buffer->head == NULL) instead of while
AfterWait_if == "r_peek"

\* where sbuffer_remove continues when pthread_cond_wait returns
AfterWait == "r_while"

\* the values a read of the local record x can give
ReadRecord(x) == IF x = Uninit THEN Garbage ELSE {x}

\* mutant: the loop has no test that ends it
BreakLoop_never(st, data) == FALSE

\* consumer_thread, the test that ends the loop
BreakLoop(st, data) == data.id = 0

\* a history sequence that records the first cap entries
Record(log, e, cap) == IF Len(log) < cap THEN Append(log, e) ELSE log

\* ------------------------------------------------------------------ Init

InputFiles ==
  UNION {[1..n -> Ids] : n \in 0..MaxInput}

Init ==
  /\ \E f \in InputFiles :
       input = [k \in 1..Len(f) |-> [id |-> f[k], ts |-> k]]
  /\ readPos = 0
  /\ pc = [t \in Threads |-> IF t = Producer THEN "p_read" ELSE "c_loop"]
  /\ sensor_entry = end_signal
  /\ i = 0
  /\ dummy = NULL
  /\ insRet = "p_read"
  /\ insStatus = "none"
  /\ allocFails = 0
  /\ retrieved_data = [c \in Consumers |-> Uninit]
  /\ status = [c \in Consumers |-> "none"]
  /\ mutex = NoThread
  /\ waitSet = {}
  /\ csv_mutex = NoThread
  /\ head = NULL
  /\ tail = NULL
  /\ heap = <<>>
  /\ mainpc = "join"
  /\ inserted = <<>>
  /\ removed = <<>>
  /\ sink = <<>>
  /\ waitStamp = [c \in Consumers |-> -1]

\* -------------------------------------------------------- producer_thread

\* the fread loop: one record read and handed to sbuffer_insert, or the end
\* of the file
producer_read ==
  /\ pc[Producer] = "p_read"
  /\ IF readPos < Len(input)
       THEN /\ readPos' = readPos + 1
            /\ sensor_entry' = input[readPos + 1]
            /\ insRet' = "p_read"
            /\ i' = i
            /\ pc' = [pc EXCEPT ![Producer] = "i_alloc"]
       ELSE /\ i' = 0
            /\ pc' = [pc EXCEPT ![Producer] = "p_end"]
            /\ UNCHANGED <<readPos, sensor_entry, insRet>>
  /\ UNCHANGED <<input, dummy, insStatus, allocFails, consVars, mutex, waitSet,
                 csv_mutex, bufVars, mainpc, histVars>>

\* for (i = 0; i < NUM_THREADS - 1; i++) sbuffer_insert(buffer, &end_signal):
\* the test of the loop, then the call or pthread_exit
producer_end ==
  /\ pc[Producer] = "p_end"
  /\ IF i < NUM_THREADS - 1
       THEN /\ insRet' = "p_end"
            /\ pc' = [pc EXCEPT ![Producer] = "i_alloc"]
       ELSE /\ pc' = [pc EXCEPT ![Producer] = "exit"]
            /\ UNCHANGED insRet
  /\ UNCHANGED <<input, readPos, sensor_entry, i, dummy, insStatus, allocFails,
                 consVars, mutex, waitSet, csv_mutex, bufVars, mainpc, histVars>>

\* the counter of the end-of-stream loop once a call made there has returned
\* (i++), unchanged for a call made in the fread loop
AfterInsert(n, ret) == IF ret = "p_end" THEN n + 1 ELSE n

\* --------------------------------------------------------- sbuffer_insert

\* *data of the running sbuffer_insert call: &sensor_entry in the fread loop,
\* &end_signal in the end-of-stream loop
InsertArg == IF insRet = "p_read" THEN sensor_entry ELSE end_signal

\* mutant: the mutex is taken before malloc and not released when malloc
\* fails
insert_alloc_holds_lock ==
  /\ pc[Producer] = "i_alloc"
  /\ \/ /\ dummy' = NewNode(heap)
        /\ heap' = AllocNode(heap, InsertArg)
        /\ pc' = [pc EXCEPT ![Producer] = "i_lock"]
        /\ UNCHANGED <<insStatus, allocFails, i, mutex>>
     \/ /\ allocFails < MaxAllocFail
        /\ allocFails' = allocFails + 1
        /\ insStatus' = "SBUFFER_FAILURE"
        /\ i' = AfterInsert(i, insRet)
        /\ mutex' = Producer
        /\ pc' = [pc EXCEPT ![Producer] = insRet]
        /\ UNCHANGED <<dummy, heap>>
  /\ UNCHANGED <<input, readPos, sensor_entry, insRet, consVars,
                 waitSet, csv_mutex, head, tail, mainpc, histVars>>

\* dummy = malloc(...): the node is allocated and filled, or malloc fails
\* and the call returns SBUFFER_FAILURE
insert_alloc ==
  /\ pc[Producer] = "i_alloc"
  /\ \/ /\ dummy' = NewNode(heap)
        /\ heap' = AllocNode(heap, InsertArg)
        /\ pc' = [pc EXCEPT ![Producer] = "i_lock"]
        /\ UNCHANGED <<insStatus, allocFails, i>>
     \/ /\ allocFails < MaxAllocFail
        /\ allocFails' = allocFails + 1
        /\ insStatus' = "SBUFFER_FAILURE"
        /\ i' = AfterInsert(i, insRet)
        /\ pc' = [pc EXCEPT ![Producer] = insRet]
        /\ UNCHANGED <<dummy, heap>>
  /\ UNCHANGED <<input, readPos, sensor_entry, insRet, consVars, mutex,
                 waitSet, csv_mutex, head, tail, mainpc, histVars>>

insert_lock ==
  /\ pc[Producer] = "i_lock"
  /\ MutexFree(mutex)
  /\ mutex' = Producer
  /\ pc' = [pc EXCEPT ![Producer] = "i_link"]
  /\ UNCHANGED <<prodVars, consVars, waitSet, csv_mutex, bufVars, mainpc,
                 histVars>>

insert_link ==
  /\ pc[Producer] = "i_link"
  /\ head' = LinkNode(head, tail, heap, dummy)[1]
  /\ tail' = LinkNode(head, tail, heap, dummy)[2]
  /\ heap' = LinkNode(head, tail, heap, dummy)[3]
  /\ inserted' = Append(inserted, heap[dummy].data)
  /\ pc' = [pc EXCEPT ![Producer] = "i_signal"]
  /\ UNCHANGED <<prodVars, consVars, mutex, waitSet, csv_mutex, mainpc,
                 removed, sink, waitStamp>>

\* mutant: sbuffer_insert does not signal the condition
insert_signal_lost ==
  /\ pc[Producer] = "i_signal"
  /\ pc' = [pc EXCEPT ![Producer] = "i_unlock"]
  /\ UNCHANGED <<prodVars, consVars, mutex, waitSet, csv_mutex, bufVars, mainpc,
                 histVars>>

\* mutant: pthread_cond_broadcast instead of pthread_cond_signal
insert_signal_broadcast ==
  /\ pc[Producer] = "i_signal"
  /\ waitSet' = {}
  /\ pc' = [pc EXCEPT ![Producer] = "i_unlock"]
  /\ UNCHANGED <<prodVars, consVars, mutex, csv_mutex, bufVars, mainpc,
                 histVars>>

\* pthread_cond_signal: one of the blocked consumers, if any, is unblocked
insert_signal ==
  /\ pc[Producer] = "i_signal"
  /\ IF waitSet = {}
       THEN UNCHANGED waitSet
       ELSE \E w \in waitSet : waitSet' = waitSet \ {w}
  /\ pc' = [pc EXCEPT ![Producer] = "i_unlock"]
  /\ UNCHANGED <<prodVars, consVars, mutex, csv_mutex, bufVars, mainpc,
                 histVars>>

insert_unlock ==
  /\ pc[Producer] = "i_unlock"
  /\ mutex' = NoThread
  /\ insStatus' = "SBUFFER_SUCCESS"
  /\ dummy' = NULL
  /\ i' = AfterInsert(i, insRet)
  /\ pc' = [pc EXCEPT ![Producer] = insRet]
  /\ UNCHANGED <<input, readPos, sensor_entry, insRet, allocFails, consVars,
                 waitSet, csv_mutex, bufVars, mainpc, histVars>>

\* --------------------------------------------------------- sbuffer_remove

\* int status = sbuffer_remove(buffer, &retrieved_data): the call starts and
\* takes the mutex
remove_lock(c) ==
  /\ pc[c] = "c_loop"
  /\ MutexFree(mutex)
  /\ mutex' = c
  /\ pc' = [pc EXCEPT ![c] = "r_while"]
  /\ UNCHANGED <<prodVars, consVars, waitSet, csv_mutex, bufVars, mainpc,
                 histVars>>

\* while (buffer->head == NULL) pthread_cond_wait(...): the test, and the
\* first half of the wait (the mutex is released, the caller blocks)
remove_while(c) ==
  /\ pc[c] = "r_while"
  /\ IF head = NULL
       THEN /\ mutex' = NoThread
            /\ waitSet' = waitSet \cup {c}
            /\ waitStamp' = [waitStamp EXCEPT ![c] = Len(inserted)]
            /\ pc' = [pc EXCEPT ![c] = "r_wait"]
       ELSE /\ pc' = [pc EXCEPT ![c] = "r_peek"]
            /\ UNCHANGED <<mutex, waitSet, waitStamp>>
  /\ UNCHANGED <<prodVars, consVars, csv_mutex, bufVars, mainpc, inserted,
                 removed, sink>>

\* pthread_cond_wait returns: the caller was unblocked and owns the mutex again
remove_wait(c) ==
  /\ pc[c] = "r_wait"
  /\ c \notin waitSet
  /\ MutexFree(mutex)
  /\ mutex' = c
  /\ pc' = [pc EXCEPT ![c] = AfterWait]
  /\ UNCHANGED <<prodVars, consVars, waitSet, csv_mutex, bufVars, mainpc,
                 histVars>>

\* a blocked consumer is unblocked without a signal (POSIX allows it)
spurious_wakeup(c) ==
  /\ c \in waitSet
  /\ waitSet' = waitSet \ {c}
  /\ UNCHANGED <<prodVars, consVars, pc, mutex, csv_mutex, bufVars, mainpc,
                 histVars>>

\* mutant: return SBUFFER_NO_DATA without pthread_mutex_unlock
remove_peek_no_unlock(c) ==
  /\ pc[c] = "r_peek"
  /\ IF head = NULL
       THEN /\ pc' = [pc EXCEPT ![c] = "segv"]
            /\ UNCHANGED status
       ELSE IF HeadIsEndOfStream(head, heap)
         THEN /\ status' = [status EXCEPT ![c] = "SBUFFER_NO_DATA"]
              /\ pc' = [pc EXCEPT ![c] = "c_check"]
         ELSE /\ pc' = [pc EXCEPT ![c] = "r_take"]
              /\ UNCHANGED status
  /\ UNCHANGED <<prodVars, retrieved_data, mutex, waitSet, csv_mutex, bufVars,
                 mainpc, histVars>>

\* mutant: *data = buffer->head->data comes before the end-of-stream test
remove_peek_copies(c) ==
  /\ pc[c] = "r_peek"
  /\ IF head = NULL
       THEN /\ pc' = [pc EXCEPT ![c] = "segv"]
            /\ UNCHANGED <<mutex, status, retrieved_data>>
       ELSE /\ retrieved_data' = [retrieved_data EXCEPT ![c] = heap[head].data]
            /\ IF HeadIsEndOfStream(head, heap)
                 THEN /\ mutex' = NoThread
                      /\ status' = [status EXCEPT ![c] = "SBUFFER_NO_DATA"]
                      /\ pc' = [pc EXCEPT ![c] = "c_check"]
                 ELSE /\ pc' = [pc EXCEPT ![c] = "r_take"]
                      /\ UNCHANGED <<mutex, status>>
  /\ UNCHANGED <<prodVars, waitSet, csv_mutex, bufVars, mainpc, histVars>>

\* if (buffer->head->data.id == 0) { unlock; return SBUFFER_NO_DATA; }
\* Reading the head of an empty buffer dereferences NULL: the thread crashes.
remove_peek(c) ==
  /\ pc[c] = "r_peek"
  /\ IF head = NULL
       THEN /\ pc' = [pc EXCEPT ![c] = "segv"]
            /\ UNCHANGED <<mutex, status>>
       ELSE IF HeadIsEndOfStream(head, heap)
         THEN /\ mutex' = NoThread
              /\ status' = [status EXCEPT ![c] = "SBUFFER_NO_DATA"]
              /\ pc' = [pc EXCEPT ![c] = "c_check"]
         ELSE /\ pc' = [pc EXCEPT ![c] = "r_take"]
              /\ UNCHANGED <<mutex, status>>
  /\ UNCHANGED <<prodVars, retrieved_data, waitSet, csv_mutex, bufVars, mainpc,
                 histVars>>

\* *data = buffer->head->data; the head node is unlinked and freed
remove_take(c) ==
  /\ pc[c] = "r_take"
  /\ retrieved_data' = [retrieved_data EXCEPT ![c] = heap[head].data]
  /\ head' = UnlinkHead(head, tail, heap)[1]
  /\ tail' = UnlinkHead(head, tail, heap)[2]
  /\ heap' = UnlinkHead(head, tail, heap)[3]
  /\ removed' = Append(removed, [who |-> c, rec |-> heap[head].data])
  /\ pc' = [pc EXCEPT ![c] = "r_unlock"]
  /\ UNCHANGED <<prodVars, status, mutex, waitSet, csv_mutex, mainpc,
                 inserted, sink, waitStamp>>

remove_unlock(c) ==
  /\ pc[c] = "r_unlock"
  /\ mutex' = NoThread
  /\ status' = [status EXCEPT ![c] = "SBUFFER_SUCCESS"]
  /\ pc' = [pc EXCEPT ![c] = "c_check"]
  /\ UNCHANGED <<prodVars, retrieved_data, waitSet, csv_mutex, bufVars, mainpc,
                 histVars>>

\* -------------------------------------------------------- consumer_thread

\* if (status == SBUFFER_FAILURE) continue; if (retrieved_data.id == 0) break;
consumer_check(c) ==
  /\ pc[c] = "c_check"
  /\ IF status[c] = "SBUFFER_FAILURE"
       THEN /\ pc' = [pc EXCEPT ![c] = "c_loop"]
            /\ UNCHANGED retrieved_data
       ELSE \E d \in ReadRecord(retrieved_data[c]) :
              /\ retrieved_data' = [retrieved_data EXCEPT ![c] = d]
              /\ pc' = [pc EXCEPT ![c] =
                   IF BreakLoop(status[c], d) THEN "exit" ELSE "c_lock"]
  /\ waitStamp' = [waitStamp EXCEPT ![c] = -1]
  /\ UNCHANGED <<prodVars, status, mutex, waitSet, csv_mutex, bufVars,
                 mainpc, inserted, removed, sink>>

csv_lock(c) ==
  /\ pc[c] = "c_lock"
  /\ MutexFree(csv_mutex)
  /\ csv_mutex' = c
  /\ pc' = [pc EXCEPT ![c] = "c_write"]
  /\ UNCHANGED <<prodVars, consVars, mutex, waitSet, bufVars, mainpc,
                 histVars>>

\* mutant: the loop iteration ends without pthread_mutex_unlock(&csv_mutex)
csv_write_keeps_lock(c) ==
  /\ pc[c] = "c_write"
  /\ sink' = Record(sink, [who |-> c, rec |-> retrieved_data[c]], SinkCap)
  /\ UNCHANGED csv_mutex
  /\ pc' = [pc EXCEPT ![c] = "c_loop"]
  /\ UNCHANGED <<prodVars, consVars, mutex, waitSet, bufVars, mainpc,
                 inserted, removed, waitStamp>>

\* log_sensor_data(output_csv, retrieved_data.id, ...), then
\* pthread_mutex_unlock(&csv_mutex): the unlock follows both outcomes of the
\* write, which differ only in the console message
csv_write(c) ==
  /\ pc[c] = "c_write"
  /\ sink' = Record(sink, [who |-> c, rec |-> retrieved_data[c]], SinkCap)
  /\ csv_mutex' = NoThread
  /\ pc' = [pc EXCEPT ![c] = "c_loop"]
  /\ UNCHANGED <<prodVars, consVars, mutex, waitSet, bufVars, mainpc,
                 inserted, removed, waitStamp>>

\* ------------------------------------------------------------------- main

\* mutant: sbuffer_free right after the join of the producer, before the
\* joins of the consumers
main_join_early ==
  /\ mainpc = "join"
  /\ pc[Producer] = "exit"
  /\ head' = NULL
  /\ tail' = NULL
  /\ heap' = <<>>
  /\ mainpc' = "done"
  /\ UNCHANGED <<prodVars, consVars, pc, mutex, waitSet, csv_mutex, histVars>>

\* pthread_join of the three threads, then sbuffer_free: every node left in
\* the buffer is freed
main_join ==
  /\ mainpc = "join"
  /\ \A t \in Threads : pc[t] = "exit"
  /\ head' = NULL
  /\ tail' = NULL
  /\ heap' = <<>>
  /\ mainpc' = "done"
  /\ UNCHANGED <<prodVars, consVars, pc, mutex, waitSet, csv_mutex, histVars>>

\* ------------------------------------------------------------------- Spec

ProducerStep ==
  \/ producer_read
  \/ producer_end
  \/ insert_alloc
  \/ insert_lock
  \/ insert_link
  \/ insert_signal
  \/ insert_unlock

ConsumerStep(c) ==
  \/ remove_lock(c)
  \/ remove_while(c)
  \/ remove_wait(c)
  \/ remove_peek(c)
  \/ remove_take(c)
  \/ remove_unlock(c)
  \/ consumer_check(c)
  \/ csv_lock(c)
  \/ csv_write(c)

Next ==
  \/ producer_read
  \/ producer_end
  \/ insert_alloc
  \/ insert_lock
  \/ insert_link
  \/ insert_signal
  \/ insert_unlock
  \/ \E c \in Consumers : remove_lock(c)
  \/ \E c \in Consumers : remove_while(c)
  \/ \E c \in Consumers : remove_wait(c)
  \/ \E c \in Consumers : spurious_wakeup(c)
  \/ \E c \in Consumers : remove_peek(c)
  \/ \E c \in Consumers : remove_take(c)
  \/ \E c \in Consumers : remove_unlock(c)
  \/ \E c \in Consumers : consumer_check(c)
  \/ \E c \in Consumers : csv_lock(c)
  \/ \E c \in Consumers : csv_write(c)
  \/ main_join

Spec == Init /\ [][Next]_vars

\* Every thread that can take a step eventually takes one: the scheduler is
\* fair.  Spurious wake-ups are allowed, never forced.
FairSpec ==
  /\ Spec
  /\ WF_vars(ProducerStep)
  /\ \A c \in Consumers : WF_vars(ConsumerStep(c))
  /\ WF_vars(main_join)

\* The scheduler is fair and so are the mutexes: a consumer that can take a
\* step again and again (a mutex that is free again and again) eventually
\* takes it, however often another thread gets there first.
StrongFairSpec ==
  /\ Spec
  /\ WF_vars(ProducerStep)
  /\ \A c \in Consumers : SF_vars(ConsumerStep(c))
  /\ WF_vars(main_join)

\* ------------------------------------------------- vocabulary of the claims

Range(q) == {q[k] : k \in 1..Len(q)}
Count(q, e) == Cardinality({k \in 1..Len(q) : q[k] = e})
RecOf(log) == [k \in 1..Len(log) |-> log[k].rec]
IsPrefix(p, q) == Len(p) <= Len(q) /\ \A k \in 1..Len(p) : p[k] = q[k]

\* the end-of-stream records the producer has linked into the buffer
SentinelsEnqueued == Count(inserted, end_signal)

\* record r was linked into the buffer with no record of id 0 linked before it
InsertedBeforeSentinel(r) ==
  \E k \in 1..Len(inserted) :
    /\ inserted[k] = r
    /\ \A j \in 1..k : inserted[j].id # 0

AllExited == \A c \in Consumers : pc[c] = "exit"

\* C1: once the producer has linked its K end-of-stream records and exited,
\* every consumer eventually leaves its loop and exits.
C1_Termination ==
  (pc[Producer] = "exit" /\ SentinelsEnqueued = NumConsumers) ~> AllExited

\* the place of record r in the order of insertion
Pos(r) == CHOOSE k \in 1..Len(inserted) : inserted[k] = r

HeadIsSentinel == head # NULL /\ heap[head].data.id = 0

\* thread t is in the part of sbuffer_insert / sbuffer_remove that reads or
\* writes head, tail or a node
InCritical(t) ==
  IF t = Producer
    THEN pc[t] \in {"i_link", "i_signal", "i_unlock"}
    ELSE pc[t] \in {"r_while", "r_peek", "r_take", "r_unlock"}

\* C2: a consumer whose sbuffer_remove returned SBUFFER_NO_DATA is at the
\* test that follows the call or has exited: it neither writes to the sink
\* nor calls sbuffer_remove again.
C2_ExitOnEndOfStream ==
  \A c \in Consumers :
    status[c] = "SBUFFER_NO_DATA" => pc[c] \in {"c_check", "exit"}

\* C3: no reading has more lines in the sink than the producer inserted it
\* times, and once main has joined all threads every inserted reading of
\* non-zero id has exactly one line.
C3_NoLossNoDuplicate ==
  /\ \A r \in Records : Count(RecOf(sink), r) <= Count(inserted, r)
  /\ mainpc = "done" =>
       \A r \in Range(inserted) : r.id # 0 => Count(RecOf(sink), r) = 1

\* C4: no record is ever returned twice by sbuffer_remove, and again and
\* again every record of non-zero id that was linked before any record of
\* id 0 has been returned (once linked, it is eventually returned).
C4_NoLossAtQueue ==
  /\ [](\A r \in Records : Count(RecOf(removed), r) <= 1)
  /\ []<>(\A r \in Records :
            InsertedBeforeSentinel(r) => Count(RecOf(removed), r) = 1)

C4_Returned ==
  /\ SentinelsEnqueued >= 1
  /\ \E r \in Records :
       InsertedBeforeSentinel(r) /\ Count(RecOf(removed), r) = 1

\* C5: the records returned by sbuffer_remove, in the order of the removes,
\* are a prefix of the records inserted; the records one consumer received
\* are in insertion order.
C5_FIFO ==
  /\ IsPrefix(RecOf(removed), inserted)
  /\ \A j, k \in 1..Len(removed) :
       (j < k /\ removed[j].who = removed[k].who)
         => Pos(removed[j].rec) < Pos(removed[k].rec)

C5_TwoRemoved ==
  /\ Len(removed) >= 2
  /\ \E c \in Consumers : removed[1].who = c /\ removed[2].who = c

\* C6 (as claimed): the lines of the sink that belong to inserted readings
\* appear in the order of insertion.
C6_SinkInInsertionOrder ==
  \A j, k \in 1..Len(sink) :
    (j < k /\ sink[j].rec \in Range(inserted) /\ sink[k].rec \in Range(inserted))
      => Pos(sink[j].rec) <= Pos(sink[k].rec)

\* C6 (amended): the lines one consumer writes appear in the order of
\* insertion of their readings; a later line of the same consumer never
\* belongs to a reading inserted earlier.
C6_SinkOrderPerConsumer ==
  \A j, k \in 1..Len(sink) :
    (/\ j < k
     /\ sink[j].who = sink[k].who
     /\ sink[j].rec \in Range(inserted)
     /\ sink[k].rec \in Range(inserted))
      => Pos(sink[j].rec) <= Pos(sink[k].rec)

C6_TwoLinesOneConsumer ==
  \E j, k \in 1..Len(sink) :
    /\ j < k
    /\ sink[j].who = sink[k].who
    /\ sink[j].rec \in Range(inserted)
    /\ sink[k].rec \in Range(inserted)
    /\ Pos(sink[j].rec) < Pos(sink[k].rec)

\* C7: at most one thread is inside the critical section of the buffer, the
\* owner of the mutex is that thread, and a consumer blocked in
\* pthread_cond_wait is not inside and does not own the mutex.
C7_MutualExclusion ==
  /\ Cardinality({t \in Threads : InCritical(t)}) <= 1
  /\ \A t \in Threads : InCritical(t) => mutex = t
  /\ \A c \in Consumers : pc[c] = "r_wait" => mutex # c

C7_OneInsideOneWaiting ==
  \E c \in Consumers, t \in Threads :
    pc[c] = "r_wait" /\ c \in waitSet /\ InCritical(t)

\* C8: sbuffer_remove reads the head only of a non-empty buffer, the calling
\* thread never crashes on an empty one, and a call that has waited is past
\* the wait only after a record was inserted since it last started to wait.
C8_BlockingRemove ==
  \A c \in Consumers :
    /\ pc[c] # "segv"
    /\ pc[c] \in {"r_peek", "r_take"} => head # NULL
    /\ (pc[c] \in {"r_peek", "r_take", "r_unlock", "c_check"} /\ waitStamp[c] >= 0)
         => Len(inserted) > waitStamp[c]

\* a consumer that was woken checks again and finds the buffer empty, after
\* an insert has happened
C8_WokenFindsEmpty ==
  \E c \in Consumers :
    pc[c] = "r_while" /\ waitStamp[c] >= 0 /\ head = NULL /\ Len(inserted) >= 1

\* C9: from a state whose head is a record of id 0, no step except the
\* destruction of the buffer changes the head, its data or the records
\* returned so far; a consumer at the end-of-stream test leaves it with
\* SBUFFER_NO_DATA and the buffer unchanged.
C9_IdempotentDrain ==
  [][HeadIsSentinel =>
       \/ mainpc' = "done"
       \/ /\ head' = head
          /\ head \in DOMAIN heap'
          /\ heap'[head].data = heap[head].data
          /\ removed' = removed
          /\ \A c \in Consumers :
               (pc[c] = "r_peek" /\ pc'[c] # "r_peek")
                 => /\ status'[c] = "SBUFFER_NO_DATA"
                    /\ pc'[c] = "c_check"
                    /\ UNCHANGED <<head, tail, heap>>]_vars

\* a consumer has been told SBUFFER_NO_DATA while a record of non-zero id
\* was queued behind the record of id 0 at the head
C9_DataBehindSentinel ==
  /\ HeadIsSentinel
  /\ \E k \in 2..Len(QueueData) : QueueData[k].id # 0
  /\ \E c \in Consumers : status[c] = "SBUFFER_NO_DATA"

\* C10: sbuffer_remove never returns a record of id 0 with SBUFFER_SUCCESS
\* and no line of the sink carries id 0.
C10_SentinelNeverData ==
  /\ \A k \in 1..Len(removed) : removed[k].rec.id # 0
  /\ \A k \in 1..Len(sink) : sink[k].rec.id # 0
  /\ \A c \in Consumers :
       (status[c] = "SBUFFER_SUCCESS" /\ pc[c] = "c_check")
         => retrieved_data[c].id # 0

\* one consumer left its loop on a local record of id 0 while records were
\* returned and written
C10_ExitedAndWritten ==
  /\ \E c \in Consumers : pc[c] = "exit"
  /\ Len(removed) >= 1
  /\ Len(sink) >= 1

\* C11: when the producer has exited, K end-of-stream records are in the
\* buffer, and no record follows the first end-of-stream record except
\* further end-of-stream records.
C11_ProducerShutdown ==
  /\ pc[Producer] = "exit" => SentinelsEnqueued = NumConsumers
  /\ \A j, k \in 1..Len(inserted) :
       (j < k /\ inserted[j] = end_signal) => inserted[k] = end_signal

\* C12: the step on which sbuffer_insert fails returns SBUFFER_FAILURE to
\* the place of the call, leaves the mutex, the buffer, the blocked
\* consumers and the file position as they are and moves no consumer; the
\* record is dropped: whenever the producer is back at its read, every
\* record read so far was either inserted or failed once, none retried.
C12_FailedInsert ==
  /\ [][(pc[Producer] = "i_alloc" /\ pc'[Producer] \notin {"i_alloc", "i_lock"})
          => /\ insStatus' = "SBUFFER_FAILURE"
             /\ pc'[Producer] = insRet
             /\ pc'[Producer] \in {"p_read", "p_end"}
             /\ UNCHANGED <<mutex, head, tail, heap, inserted, waitSet, readPos>>
             /\ \A c \in Consumers : pc'[c] = pc[c]]_vars
  /\ [](pc[Producer] = "p_read" => Len(inserted) + allocFails = readPos)

\* the first record of the input was dropped and the second one inserted
C12_DroppedThenInserted ==
  /\ allocFails >= 1
  /\ Len(inserted) >= 1
  /\ inserted[1].ts = 2

\* C13: the step on which sbuffer_insert signals the condition is taken with
\* the mutex held and the new node already linked, keeps the mutex, and
\* unblocks exactly one blocked consumer if there is one, none otherwise.
C13_WakeOne ==
  [][(pc[Producer] = "i_signal" /\ pc'[Producer] = "i_unlock")
       => /\ mutex = Producer
          /\ mutex' = Producer
          /\ head # NULL
          /\ dummy \in Range(QueueNodes)
          /\ waitSet' \subseteq waitSet
          /\ Cardinality(waitSet') =
               IF waitSet = {} THEN 0 ELSE Cardinality(waitSet) - 1]_vars

\* the signal has unblocked one of two blocked consumers
C13_OneWokenOneBlocked ==
  /\ pc[Producer] = "i_unlock"
  /\ Cardinality(waitSet) = 1
  /\ \E c \in Consumers : pc[c] = "r_wait" /\ c \notin waitSet

\* C14: at most one consumer is inside the write-and-flush of the output file,
\* and it holds the sink lock; the step that ends the write releases the lock
\* and returns to the top of the loop; the producer never holds the sink lock
\* and never writes a line.
C14_SinkSerialization ==
  /\ [](Cardinality({c \in Consumers : pc[c] = "c_write"}) <= 1)
  /\ [](\A c \in Consumers : pc[c] = "c_write" => csv_mutex = c)
  /\ [](csv_mutex # Producer /\ \A k \in 1..Len(sink) : sink[k].who \in Consumers)
  /\ [][\A c \in Consumers :
         (pc[c] = "c_write" /\ pc'[c] # "c_write")
           => csv_mutex' = NoThread /\ pc'[c] = "c_loop"]_vars
  /\ [][pc'[Producer] # pc[Producer] => UNCHANGED <<csv_mutex, sink>>]_vars

\* one consumer is writing while the other waits for the sink lock, after a
\* line has already been written and the lock released once
C14_OneWritingOneQueued ==
  /\ Len(sink) >= 1
  /\ \E c, d \in Consumers :
       c # d /\ pc[c] = "c_write" /\ pc[d] = "c_lock" /\ csv_mutex = c

\* the input holds no record of id 0 and no sbuffer_insert has failed
NormalRun == allocFails = 0 /\ \A k \in 1..Len(input) : input[k].id # 0

\* C15: the buffer is destroyed only when the producer and every consumer
\* have terminated, and in a normal run every node that the destruction
\* frees holds an end-of-stream record.
C15_Teardown ==
  /\ [](mainpc = "done" => \A t \in Threads : pc[t] = "exit")
  /\ [][mainpc' # mainpc
         => /\ \A t \in Threads : pc[t] = "exit"
            /\ heap' = <<>> /\ head' = NULL /\ tail' = NULL
            /\ NormalRun => \A k \in 1..Len(QueueData) : QueueData[k] = end_signal]_vars

\* the buffer has been destroyed in a normal run while it held the K
\* end-of-stream records
C15_DestroyedWithSentinels ==
  /\ mainpc = "done"
  /\ NormalRun
  /\ SentinelsEnqueued = NumConsumers
  /\ removed = <<>>

\* C16: as long as the buffer exists, the records linked by sbuffer_insert are
\* the records unlinked by sbuffer_remove followed by the records still in
\* the list, so the numbers balance; no node is in the list twice and every
\* allocated node is in the list or is the one the producer is about to link.
C16_Conservation ==
  mainpc = "join" =>
    /\ inserted = RecOf(removed) \o QueueData
    /\ Len(inserted) = Len(removed) + Len(QueueNodes)
    /\ Cardinality(Range(QueueNodes)) = Len(QueueNodes)
    /\ DOMAIN heap =
         Range(QueueNodes) \cup (IF pc[Producer] \in {"i_lock", "i_link"} THEN {dummy} ELSE {})

\* a remove has unlinked a record and not yet returned while an insert has
\* allocated its node and waits for the mutex, with a record still in the list
C16_RemoveAndInsertInFlight ==
  /\ Len(removed) >= 1
  /\ Len(QueueNodes) >= 1
  /\ pc[Producer] = "i_lock"
  /\ \E c \in Consumers : pc[c] = "r_unlock"

\* consumer c is inside a call of sbuffer_remove
InRemove(c) == pc[c] \in {"r_while", "r_wait", "r_peek", "r_take", "r_unlock"}

\* C17: inside sbuffer_remove the caller's record is written by the copy of
\* the Success path only; the step that returns SBUFFER_NO_DATA leaves it as
\* it was, and no call returns SBUFFER_FAILURE.  Outside the call the record
\* changes only when its arbitrary initial value is first read.
C17_FrameOfRemove ==
  /\ [][\A c \in Consumers :
         /\ (InRemove(c) /\ retrieved_data'[c] # retrieved_data[c])
              => pc[c] = "r_take" /\ pc'[c] = "r_unlock"
         /\ (pc[c] = "r_unlock" /\ pc'[c] # "r_unlock")
              => status'[c] = "SBUFFER_SUCCESS"
         /\ (InRemove(c) /\ pc'[c] = "c_check" /\ pc[c] # "r_unlock")
              => /\ pc[c] = "r_peek"
                 /\ status'[c] = "SBUFFER_NO_DATA"
                 /\ retrieved_data'[c] = retrieved_data[c]
         /\ (~InRemove(c) /\ retrieved_data'[c] # retrieved_data[c])
              => retrieved_data[c] = Uninit /\ pc[c] = "c_check"]_vars
  /\ [](\A c \in Consumers : status[c] # "SBUFFER_FAILURE")

\* a call has returned SBUFFER_NO_DATA to a consumer whose record still holds
\* the data record of its previous, successful call
C17_NoDataWithStaleRecord ==
  \E c \in Consumers :
    /\ pc[c] = "c_check"
    /\ status[c] = "SBUFFER_NO_DATA"
    /\ retrieved_data[c].id # 0
    /\ \E k \in 1..Len(removed) : removed[k] = [who |-> c, rec |-> retrieved_data[c]]

\* the producer has linked its K end-of-stream records and exited
ProducerCompleted == pc[Producer] = "exit" /\ SentinelsEnqueued = NumConsumers

C19_LinkedStructure ==
  mutex = NoThread =>
    /\ head = NULL <=> tail = NULL
    /\ head # NULL =>
         /\ head \in DOMAIN heap /\ tail \in DOMAIN heap
         /\ QueueNodes[Len(QueueNodes)] = tail
         /\ heap[tail].next = NULL

\* the removal of the last node has emptied the list and released the mutex
C19_EmptiedByRemove ==
  /\ mutex = NoThread
  /\ head = NULL /\ tail = NULL
  /\ Len(removed) >= 1
  /\ mainpc = "join"

\* C20: a thread holds the buffer mutex only between the lock and the unlock
\* inside sbuffer_insert or sbuffer_remove, so not after any return and not
\* while blocked in the condition wait; the sink mutex is held only by a
\* consumer at its write; no thread holds both mutexes.
C20_LockDiscipline ==
  /\ \A t \in Threads : mutex = t => InCritical(t)
  /\ \A c \in Consumers : csv_mutex = c => pc[c] = "c_write"
  /\ \A t \in Threads : ~(mutex = t /\ csv_mutex = t)
  /\ mutex \in Threads \cup {NoThread}
  /\ csv_mutex \in Consumers \cup {NoThread}

\* both mutexes are held, by different consumers: one has returned from
\* sbuffer_remove with SBUFFER_NO_DATA and writes, the other is inside
\* sbuffer_remove
C20_BothLocksHeld ==
  \E c, d \in Consumers :
    /\ c # d
    /\ csv_mutex = c /\ status[c] = "SBUFFER_NO_DATA"
    /\ mutex = d

====
